---- MODULE Spec2Model ----
(***************************************************************************)
(* The contribution registry of src/environment/providers/contribution.ts: *)
(* the entry list (_entries), the context source, the derived              *)
(* `contributions` observable (combineLatest -> map -> map ->              *)
(* distinctUntilChanged) as seen by one subscriber, and the pure functions *)
(* mergeContributions, contextFilter, filterContributions and              *)
(* evaluateContributions.                                                  *)
(*                                                                         *)
(* A JavaScript object is a TLA+ function from its own keys to their       *)
(* values, so an absent key is a key outside the DOMAIN, {} is the empty   *)
(* function and deep equality (isEqual) is TLA+ equality.  Entry objects   *)
(* are compared by identity in the source (e !== entry), so an entry is    *)
(* its identity (a number) and its contributions are looked up from it.    *)
(***************************************************************************)
EXTENDS Integers, Sequences, FiniteSets, TLC

\* The longest entry list the model lets the registry hold.
MaxEntries == 3

----------------------------------------------------------------------------
\* Values

\* The object {} (contribution.ts:84, :110, :115).
EmptyObject == [k \in {} |-> <<>>]

\* Context snapshots the context source may supply: CtxZed has no `repo`,
\* CtxAnon has no `user`.
CtxBo == [user |-> "Bo", flag |-> TRUE, repo |-> "r"]
CtxZed == [user |-> "Zed", flag |-> FALSE]
CtxAnon == [flag |-> TRUE, repo |-> "r"]
Contexts == {CtxBo, CtxZed, CtxAnon}

\* The entry objects callers may pass.  Entries 1 and 4 are two distinct
\* objects whose contributions are deep-equal.
Entries == {1, 2, 3, 4}

HelloContributions ==
    [commands |-> << [command |-> "a", title |-> "Hello ${user}"] >>,
     menus |-> [m \in {"editor/title"} |-> << [action |-> "a"] >>]]

\* Its second commandPalette item has a `when` that throws without `user`.
PlainContributions ==
    [commands |-> << [command |-> "b", title |-> "Plain", category |-> ""] >>,
     menus |-> [m \in {"editor/title", "commandPalette"} |->
                  IF m = "editor/title"
                  THEN << [action |-> "b", when |-> "flag"] >>
                  ELSE << [action |-> "b"],
                          [action |-> "b2", when |-> "user.length > 2"] >>]]

\* Its `when` throws without `user`, its label throws without `repo`.
StrictContributions ==
    [commands |-> << [command |-> "c", title |-> "Plain C",
                      actionItem |-> [label |-> "Repo ${repo.name}",
                                      description |-> "Plain"]],
                     [command |-> "c2", title |-> "Hello ${user}"] >>,
     menus |-> [m \in {"commandPalette"} |->
                  << [action |-> "c", when |-> "user.length > 2"],
                     [action |-> "c2"] >>]]

\* ContributionsEntry.contributions of each entry object.
contributionsOf(entry) ==
    CASE entry = 1 -> HelloContributions
      [] entry = 2 -> PlainContributions
      [] entry = 3 -> StrictContributions
      [] entry = 4 -> HelloContributions
      [] OTHER -> EmptyObject

----------------------------------------------------------------------------
\* The context and the evaluators the registry calls

\* A child context: its own (empty) bindings in front of the parent's.
createChildContext(context) == [parent |-> context, own |-> EmptyObject]

ContextHas(child, key) == key \in DOMAIN child.own \/ key \in DOMAIN child.parent

ContextGet(child, key) ==
    IF key \in DOMAIN child.own THEN child.own[key] ELSE child.parent[key]

\* evaluate(expr, context) throws: a malformed expression, or a property
\* read on a value the context does not have.
evaluateThrows(expr, child) ==
    CASE expr = "flag" -> FALSE
      [] expr = "user.length > 2" -> ~ContextHas(child, "user")
      [] OTHER -> TRUE

\* The truthiness of evaluate(expr, context) when it does not throw.
evaluate(expr, child) ==
    CASE expr = "flag" -> ContextHas(child, "flag") /\ ContextGet(child, "flag")
      [] expr = "user.length > 2" -> ContextGet(child, "user") = "Zed"
      [] OTHER -> FALSE

\* TEMPLATE_BEGIN is "${": the model's strings that contain it.
TemplateStrings == {"Hello ${user}", "Repo ${repo.name}"}

evaluateTemplateThrows(template, child) ==
    CASE template = "Repo ${repo.name}" -> ~ContextHas(child, "repo")
      [] OTHER -> FALSE

evaluateTemplate(template, child) ==
    CASE template = "Hello ${user}" ->
           IF ~ContextHas(child, "user") THEN "Hello undefined"
           ELSE IF ContextGet(child, "user") = "Bo" THEN "Hello Bo"
           ELSE "Hello Zed"
      [] template = "Repo ${repo.name}" ->
           IF ContextGet(child, "repo") = "r" THEN "Repo r" ELSE "Repo"
      [] OTHER -> template

\* DEFAULT_TEMPLATE_EVALUATOR.needsEvaluation: template.includes(TEMPLATE_BEGIN).
needsEvaluation(template) == template \in TemplateStrings

\* isEqual of util: deep equality.
isEqual(a, b) == a = b

----------------------------------------------------------------------------
\* mergeContributions (contribution.ts:108-139)

\* MergeOne with line 121 written [...c.commands, ...merged.commands].
MergeOne_Prepend(merged, c) ==
    LET withCommands ==
          IF "commands" \in DOMAIN c
          THEN IF "commands" \notin DOMAIN merged
               THEN [commands |-> c.commands] @@ merged
               ELSE [commands |-> c.commands \o merged.commands] @@ merged
          ELSE merged
        mergedMenus ==
          IF "menus" \notin DOMAIN merged
          THEN c.menus
          ELSE [menu \in DOMAIN merged.menus \cup DOMAIN c.menus |->
                  IF menu \notin DOMAIN c.menus THEN merged.menus[menu]
                  ELSE IF menu \notin DOMAIN merged.menus THEN c.menus[menu]
                  ELSE merged.menus[menu] \o c.menus[menu]]
    IN  IF "menus" \in DOMAIN c
        THEN [menus |-> mergedMenus] @@ withCommands
        ELSE withCommands

\* MergeOne with lines 128-134 written merged.menus = { ...merged.menus, ...c.menus }.
MergeOne_OverwriteMenu(merged, c) ==
    LET withCommands ==
          IF "commands" \in DOMAIN c
          THEN IF "commands" \notin DOMAIN merged
               THEN [commands |-> c.commands] @@ merged
               ELSE [commands |-> merged.commands \o c.commands] @@ merged
          ELSE merged
        mergedMenus ==
          IF "menus" \notin DOMAIN merged
          THEN c.menus
          ELSE c.menus @@ merged.menus
    IN  IF "menus" \in DOMAIN c
        THEN [menus |-> mergedMenus] @@ withCommands
        ELSE withCommands

\* MergeOne with line 118 written if (c.commands && c.commands.length): an
\* input's empty command list does not create the commands facet.
MergeOne_SkipsEmptyCommands(merged, c) ==
    LET withCommands ==
          IF "commands" \in DOMAIN c /\ c.commands # <<>>
          THEN IF "commands" \notin DOMAIN merged
               THEN [commands |-> c.commands] @@ merged
               ELSE [commands |-> merged.commands \o c.commands] @@ merged
          ELSE merged
        mergedMenus ==
          IF "menus" \notin DOMAIN merged
          THEN c.menus
          ELSE [menu \in DOMAIN merged.menus \cup DOMAIN c.menus |->
                  IF menu \notin DOMAIN c.menus THEN merged.menus[menu]
                  ELSE IF menu \notin DOMAIN merged.menus THEN c.menus[menu]
                  ELSE merged.menus[menu] \o c.menus[menu]]
    IN  IF "menus" \in DOMAIN c
        THEN [menus |-> mergedMenus] @@ withCommands
        ELSE withCommands

\* One pass of the loop body for input c (lines 117-136).
MergeOne(merged, c) ==
    LET withCommands ==
          IF "commands" \in DOMAIN c
          THEN IF "commands" \notin DOMAIN merged
               THEN [commands |-> c.commands] @@ merged
               ELSE [commands |-> merged.commands \o c.commands] @@ merged
          ELSE merged
        mergedMenus ==
          IF "menus" \notin DOMAIN merged
          THEN c.menus
          ELSE [menu \in DOMAIN merged.menus \cup DOMAIN c.menus |->
                  IF menu \notin DOMAIN c.menus THEN merged.menus[menu]
                  ELSE IF menu \notin DOMAIN merged.menus THEN c.menus[menu]
                  ELSE merged.menus[menu] \o c.menus[menu]]
    IN  IF "menus" \in DOMAIN c
        THEN [menus |-> mergedMenus] @@ withCommands
        ELSE withCommands

RECURSIVE MergeLoop(_, _, _)
MergeLoop(merged, contributions, i) ==
    IF i > Len(contributions) THEN merged
    ELSE MergeLoop(MergeOne(merged, contributions[i]), contributions, i + 1)

\* mergeContributions whose loop stops one input early.
mergeContributions_SkipsLast(contributions) ==
    IF Len(contributions) = 0 THEN EmptyObject
    ELSE IF Len(contributions) = 1 THEN contributions[1]
    ELSE MergeLoop(EmptyObject, SubSeq(contributions, 1, Len(contributions) - 1), 1)

mergeContributions(contributions) ==
    IF Len(contributions) = 0 THEN EmptyObject
    ELSE IF Len(contributions) = 1 THEN contributions[1]
    ELSE MergeLoop(EmptyObject, contributions, 1)

----------------------------------------------------------------------------
\* contextFilter and filterContributions (contribution.ts:142-167)

\* The loop of contextFilter throws as soon as one evaluateExpr call throws.
contextFilterThrows(context, items) ==
    \E i \in 1..Len(items) :
        /\ "when" \in DOMAIN items[i]
        /\ evaluateThrows(items[i].when, createChildContext(context))

contextFilter(context, items) ==
    LET omit(item) ==
          /\ "when" \in DOMAIN item
          /\ ~evaluate(item.when, createChildContext(context))
        keep(item) == ~omit(item)
    IN  SelectSeq(items, keep)

filterContributionsThrows(context, contributions) ==
    /\ "menus" \in DOMAIN contributions
    /\ \E menu \in DOMAIN contributions.menus :
          contextFilterThrows(context, contributions.menus[menu])

\* filterContributions that leaves out a menu whose filtered sequence is
\* empty.
filterContributions_DropsEmptyKeys(context, contributions) ==
    IF "menus" \notin DOMAIN contributions THEN contributions
    ELSE LET kept == {menu \in DOMAIN contributions.menus :
                        contextFilter(context, contributions.menus[menu]) # <<>>}
             filteredMenus ==
               [menu \in kept |-> contextFilter(context, contributions.menus[menu])]
         IN  [menus |-> filteredMenus] @@ contributions

filterContributions(context, contributions) ==
    IF "menus" \notin DOMAIN contributions THEN contributions
    ELSE LET filteredMenus ==
               [menu \in DOMAIN contributions.menus |->
                  contextFilter(context, contributions.menus[menu])]
         IN  [menus |-> filteredMenus] @@ contributions

----------------------------------------------------------------------------
\* evaluateContributions (contribution.ts:185-234)

CommandFields == {"title", "category", "description", "iconURL"}
ActionItemFields == {"label", "description", "group", "iconURL", "iconDescription"}

\* IsTemplated without the needsEvaluation shortcut: every non-empty field
\* goes to the template evaluator.
IsTemplated_Truthy(object, field) ==
    /\ field \in DOMAIN object
    /\ object[field] # ""

\* `object.field && needsEvaluation(object.field)`: an absent or empty string
\* is falsy.
IsTemplated(object, field) ==
    /\ field \in DOMAIN object
    /\ object[field] # ""
    /\ needsEvaluation(object[field])

\* The fields among `fields` the loop body assigns in `changed`.
ChangedFields(object, fields, childContext) ==
    [field \in {f \in fields : IsTemplated(object, f)} |->
        evaluateTemplate(object[field], childContext)]

\* EvaluateCommand with line 227 written changed.actionItem = changedActionItem.
EvaluateCommand_DropsActionItemRest(context, command) ==
    LET childContext == createChildContext(context)
        changedActionItem ==
          IF "actionItem" \in DOMAIN command
          THEN ChangedFields(command.actionItem, ActionItemFields, childContext)
          ELSE EmptyObject
        changed ==
          IF DOMAIN changedActionItem # {}
          THEN [actionItem |-> changedActionItem]
               @@ ChangedFields(command, CommandFields, childContext)
          ELSE ChangedFields(command, CommandFields, childContext)
        modified == DOMAIN changed # {}
    IN  IF modified THEN changed @@ command ELSE command

\* One iteration of the loop over the commands (lines 195-231).
EvaluateCommand(context, command) ==
    LET childContext == createChildContext(context)
        changedActionItem ==
          IF "actionItem" \in DOMAIN command
          THEN ChangedFields(command.actionItem, ActionItemFields, childContext)
          ELSE EmptyObject
        changed ==
          IF DOMAIN changedActionItem # {}
          THEN [actionItem |-> changedActionItem @@ command.actionItem]
               @@ ChangedFields(command, CommandFields, childContext)
          ELSE ChangedFields(command, CommandFields, childContext)
        modified == DOMAIN changed # {}
    IN  IF modified THEN changed @@ command ELSE command

\* Some evaluateTemplate call of the iteration throws.
EvaluateCommandThrows(context, command) ==
    LET childContext == createChildContext(context)
    IN  \/ \E f \in CommandFields :
              /\ IsTemplated(command, f)
              /\ evaluateTemplateThrows(command[f], childContext)
        \/ /\ "actionItem" \in DOMAIN command
           /\ \E f \in ActionItemFields :
                 /\ IsTemplated(command.actionItem, f)
                 /\ evaluateTemplateThrows(command.actionItem[f], childContext)

evaluateContributionsThrows(context, contributions) ==
    /\ "commands" \in DOMAIN contributions
    /\ \E i \in 1..Len(contributions.commands) :
          EvaluateCommandThrows(context, contributions.commands[i])

evaluateContributions(context, contributions) ==
    IF "commands" \notin DOMAIN contributions \/ Len(contributions.commands) = 0
    THEN contributions
    ELSE LET evaluatedCommands ==
               [i \in 1..Len(contributions.commands) |->
                  EvaluateCommand(context, contributions.commands[i])]
         IN  [commands |-> evaluatedCommands] @@ contributions

\* The fields in the order the loop body tests them (lines 198-225).
CommandFieldOrder == << "title", "category", "description", "iconURL" >>
ActionItemFieldOrder == << "label", "description", "group", "iconURL", "iconDescription" >>

\* The strings of `object` the loop body passes to evaluateTemplate, in order.
TemplatesOf(object, fieldOrder) ==
    LET templated(field) == IsTemplated(object, field)
        fields == SelectSeq(fieldOrder, templated)
    IN  [i \in 1..Len(fields) |-> object[fields[i]]]

RECURSIVE TemplatesOfCommands(_)
TemplatesOfCommands(commands) ==
    IF commands = <<>> THEN <<>>
    ELSE TemplatesOf(Head(commands), CommandFieldOrder)
         \o (IF "actionItem" \in DOMAIN Head(commands)
             THEN TemplatesOf(Head(commands).actionItem, ActionItemFieldOrder)
             ELSE <<>>)
         \o TemplatesOfCommands(Tail(commands))

\* The evaluateTemplate calls one call of evaluateContributions makes: the
\* call that throws is the last one.
TemplateCalls(context, contributions) ==
    LET templates == IF "commands" \in DOMAIN contributions
                     THEN TemplatesOfCommands(contributions.commands)
                     ELSE <<>>
        throws(i) == evaluateTemplateThrows(templates[i], createChildContext(context))
    IN  IF \E i \in 1..Len(templates) : throws(i)
        THEN SubSeq(templates, 1,
                    CHOOSE i \in 1..Len(templates) :
                        throws(i) /\ \A j \in 1..(i - 1) : ~throws(j))
        ELSE templates

----------------------------------------------------------------------------
\* ContributionRegistry.getContributions (contribution.ts:71-91)

\* The try block of line 76 throws for these contributions.
EvaluationFails(context, contributions) ==
    \/ filterContributionsThrows(context, contributions)
    \/ evaluateContributionsThrows(context, filterContributions(context, contributions))

\* EvaluateEntry with a catch block that returns the entry's contributions as
\* registered instead of {}.
EvaluateEntry_KeepsRaw(context, contributions) ==
    IF EvaluationFails(context, contributions)
    THEN contributions
    ELSE evaluateContributions(context, filterContributions(context, contributions))

\* The callback of entries.map (lines 74-86): the try block, or {} from the
\* catch block.
EvaluateEntry(context, contributions) ==
    IF EvaluationFails(context, contributions)
    THEN EmptyObject
    ELSE evaluateContributions(context, filterContributions(context, contributions))

\* The evaluation is a pure function of (entry, context): its results, and
\* whether it failed, tabulated once for the entry objects and snapshots of
\* the model.
EntryOutput ==
    [entry \in Entries, ctx \in Contexts |-> EvaluateEntry(ctx, contributionsOf(entry))]

EntryFails ==
    [entry \in Entries, ctx \in Contexts |-> EvaluationFails(ctx, contributionsOf(entry))]

\* The first map operator (lines 73-87).
EvaluateEntries(entryList, context) ==
    [i \in 1..Len(entryList) |-> EntryOutput[entryList[i], context]]

\* ErrorsLogged with one console.error call after the loop, made when some
\* evaluation of the run has failed.
ErrorsLogged_OncePerRun(entryList, context) ==
    IF \E i \in 1..Len(entryList) : EntryFails[entryList[i], context] THEN 1 ELSE 0

\* The number of console.error calls (line 80) one run of the first map makes.
ErrorsLogged(entryList, context) ==
    Cardinality({i \in 1..Len(entryList) : EntryFails[entryList[i], context]})

\* Both map operators (lines 73-88) on one combineLatest value.
Recompute(entryList, context) == mergeContributions(EvaluateEntries(entryList, context))

----------------------------------------------------------------------------
\* The registry, the context source and the two observers

VARIABLES
    entries,      \* _entries.value: the ordered list of registered entry objects
    context,      \* combineLatest's latest context: <<>> before the first snapshot
    handles,      \* the entry of every ContributionUnsubscribable returned so far
    published,    \* distinctUntilChanged's last value: <<>> before the first one
    lastOp,       \* the call or notification handled last
    entriesSeen,  \* what the observer of `entries` received during lastOp
    delivered,    \* what the observer of `contributions` received during lastOp
    recomputes,   \* runs of the map operators during lastOp
    logged,       \* console.error calls during lastOp
    call          \* a direct call of an exported function: its arguments and result

vars == <<entries, context, handles, published, lastOp, entriesSeen, delivered,
          recomputes, logged>>

\* `removed` is the number of list elements the call's filter dropped.
Op(kind, entry, previous, removed) ==
    [kind |-> kind, entry |-> entry, previous |-> previous, removed |-> removed]

Removed(entryList, entry) == Cardinality({i \in 1..Len(entryList) : entryList[i] = entry})

\* No exported function is being called directly.
NoCall ==
    [fn |-> "none", stage |-> "idle", context |-> EmptyObject, input |-> EmptyObject,
     output |-> <<>>, templates |-> <<>>]

\* The state after `new ContributionRegistry(context)` with both observers
\* subscribed: the BehaviorSubject has replayed [] to each, the context source
\* has supplied nothing yet.
Init ==
    /\ entries = <<>>
    /\ context = <<>>
    /\ handles = {}
    /\ published = <<>>
    /\ lastOp = Op("init", 0, 0, 0)
    /\ entriesSeen = << <<>> >>
    /\ delivered = <<>>
    /\ recomputes = 0
    /\ logged = 0
    /\ call = NoCall

\* WithoutEntry comparing with isEqual instead of !==.
WithoutEntry_ByContributions(entryList, entry) ==
    LET other(e) == ~isEqual(contributionsOf(e), contributionsOf(entry))
    IN  SelectSeq(entryList, other)

\* WithoutEntry written as splice(indexOf(entry), 1): one occurrence is cut
\* out, and indexOf's -1 cuts out the last element.
WithoutEntry_Splice(entryList, entry) ==
    LET at == IF \E i \in 1..Len(entryList) : entryList[i] = entry
              THEN CHOOSE i \in 1..Len(entryList) :
                     /\ entryList[i] = entry
                     /\ \A j \in 1..(i - 1) : entryList[j] # entry
              ELSE Len(entryList)
    IN  [i \in 1..(Len(entryList) - (IF Len(entryList) = 0 THEN 0 ELSE 1)) |->
           IF i < at THEN entryList[i] ELSE entryList[i + 1]]

\* this._entries.value.filter(e => e !== entry) (lines 42, 57, 60).
WithoutEntry(entryList, entry) ==
    LET other(e) == e # entry IN SelectSeq(entryList, other)

\* The pipe without distinctUntilChanged.
PassesDistinct_Always(last, aggregate) == TRUE

\* distinctUntilChanged((a, b) => isEqual(a, b)) lets `aggregate` through.
PassesDistinct(last, aggregate) == last = <<>> \/ ~isEqual(last[1], aggregate)

\* OnCombined without the try/catch of lines 75-85: a recomputation in which
\* an evaluation throws delivers nothing.
OnCombined_ThrowsThrough(pipe, entryList, ctx) ==
    LET aggregate == Recompute(entryList, ctx)
        passes == PassesDistinct(pipe.published, aggregate)
                    /\ ErrorsLogged(entryList, ctx) = 0
    IN  [published |-> IF passes THEN <<aggregate>> ELSE pipe.published,
         delivered |-> IF passes THEN Append(pipe.delivered, aggregate)
                       ELSE pipe.delivered,
         recomputes |-> pipe.recomputes + 1,
         logged |-> pipe.logged]

\* One combineLatest value through map, map and distinctUntilChanged.  `pipe`
\* is [published, delivered, recomputes, logged].
OnCombined(pipe, entryList, ctx) ==
    LET aggregate == Recompute(entryList, ctx)
        passes == PassesDistinct(pipe.published, aggregate)
    IN  [published |-> IF passes THEN <<aggregate>> ELSE pipe.published,
         delivered |-> IF passes THEN Append(pipe.delivered, aggregate)
                       ELSE pipe.delivered,
         recomputes |-> pipe.recomputes + 1,
         logged |-> pipe.logged + ErrorsLogged(entryList, ctx)]

\* OnEntries over a context source that starts with a snapshot of its own:
\* the entry list is recomputed before the first snapshot is supplied.
OnEntries_StartsWithContext(pipe, entryList, latestContext) ==
    IF latestContext = <<>> THEN OnCombined(pipe, entryList, CtxAnon)
    ELSE OnCombined(pipe, entryList, latestContext[1])

\* combineLatest emits only once the context source has supplied a snapshot.
OnEntries(pipe, entryList, latestContext) ==
    IF latestContext = <<>> THEN pipe ELSE OnCombined(pipe, entryList, latestContext[1])

RECURSIVE OnEntriesAll(_, _, _, _)
OnEntriesAll(pipe, values, i, latestContext) ==
    IF i > Len(values) THEN pipe
    ELSE OnEntriesAll(OnEntries(pipe, values[i], latestContext), values, i + 1,
                      latestContext)

StartPipe(last) == [published |-> last, delivered |-> <<>>, recomputes |-> 0, logged |-> 0]

\* EntriesNext with `entries` defined as a filtered view of _entries: the
\* entries whose evaluation fails under the latest context are left out.
EntriesNext_EnabledOnly(values) ==
    \E pipe \in {OnEntriesAll(StartPipe(published), values, 1, context)} :
        LET enabled(e) == context = <<>> \/ ~EntryFails[e, context[1]]
        IN  /\ entries' = values[Len(values)]
            /\ entriesSeen' = [i \in 1..Len(values) |-> SelectSeq(values[i], enabled)]
            /\ published' = pipe.published
            /\ delivered' = pipe.delivered
            /\ recomputes' = pipe.recomputes
            /\ logged' = pipe.logged

\* The handler calls this._entries.next(v) for each v of `values` in turn;
\* every call notifies both observers before it returns.
EntriesNext(values) ==
    \E pipe \in {OnEntriesAll(StartPipe(published), values, 1, context)} :
        /\ entries' = values[Len(values)]
        /\ entriesSeen' = values
        /\ published' = pipe.published
        /\ delivered' = pipe.delivered
        /\ recomputes' = pipe.recomputes
        /\ logged' = pipe.logged

\* registerContributions (lines 38-46).
registerContributions(entry) ==
    /\ Len(entries) < MaxEntries
    /\ EntriesNext(<< Append(entries, entry) >>)
    /\ handles' = handles \cup {entry}
    /\ lastOp' = Op("register", entry, 0, 0)
    /\ UNCHANGED <<context, call>>

\* The unsubscribe closure of a returned handle (lines 41-43 and 59-61).
unsubscribe(handle) ==
    /\ handle \in handles
    /\ EntriesNext(<< WithoutEntry(entries, handle) >>)
    /\ lastOp' = Op("unsubscribe", handle, 0, Removed(entries, handle))
    /\ UNCHANGED <<context, handles, call>>

\* replaceContributions as previous.unsubscribe() followed by a registration:
\* two calls of _entries.next.
replaceContributions_TwoSteps(previous, next) ==
    /\ Len(WithoutEntry(entries, previous)) < MaxEntries
    /\ EntriesNext(<< WithoutEntry(entries, previous),
                      Append(WithoutEntry(entries, previous), next) >>)
    /\ handles' = handles \cup {next}
    /\ lastOp' = Op("replace", next, previous, Removed(entries, previous))
    /\ UNCHANGED <<context, call>>

\* replaceContributions that returns early when previous.entry is not in the
\* list.
replaceContributions_NoopWhenAbsent(previous, next) ==
    /\ Len(WithoutEntry(entries, previous)) < MaxEntries
    /\ IF Removed(entries, previous) = 0
       THEN EntriesNext(<< entries >>) /\ handles' = handles
       ELSE /\ EntriesNext(<< Append(WithoutEntry(entries, previous), next) >>)
            /\ handles' = handles \cup {next}
    /\ lastOp' = Op("replace", next, previous, Removed(entries, previous))
    /\ UNCHANGED <<context, call>>

\* replaceContributions (lines 53-64); only previous.entry is read.
replaceContributions(previous, next) ==
    /\ Len(WithoutEntry(entries, previous)) < MaxEntries
    /\ EntriesNext(<< Append(WithoutEntry(entries, previous), next) >>)
    /\ handles' = handles \cup {next}
    /\ lastOp' = Op("replace", next, previous, Removed(entries, previous))
    /\ UNCHANGED <<context, call>>

\* A pipe built on the entry list alone: a context snapshot is stored and
\* nothing is recomputed.
contextNext_NoRecompute(ctx) ==
    /\ context' = <<ctx>>
    /\ delivered' = <<>>
    /\ recomputes' = 0
    /\ logged' = 0
    /\ entriesSeen' = <<>>
    /\ lastOp' = Op("context", 0, 0, 0)
    /\ UNCHANGED <<entries, handles, published, call>>

\* The context source emits a snapshot: combineLatest recombines it with the
\* latest entry list.
contextNext(ctx) ==
    \E pipe \in {OnCombined(StartPipe(published), entries, ctx)} :
        /\ context' = <<ctx>>
        /\ published' = pipe.published
        /\ delivered' = pipe.delivered
        /\ recomputes' = pipe.recomputes
        /\ logged' = pipe.logged
        /\ entriesSeen' = <<>>
        /\ lastOp' = Op("context", 0, 0, 0)
        /\ UNCHANGED <<entries, handles, call>>

Next ==
    \/ \E entry \in Entries : registerContributions(entry)
    \/ \E handle \in Entries : unsubscribe(handle)
    \/ \E previous \in Entries, next \in Entries : replaceContributions(previous, next)
    \/ \E ctx \in Contexts : contextNext(ctx)

Spec == Init /\ [][Next]_<<vars, call>>

----------------------------------------------------------------------------
\* Direct calls of the exported functions

\* The longest menu item sequence passed to filterContributions, the longest
\* command list passed to evaluateContributions, the longest list passed to
\* mergeContributions.
MaxItems == 3
MaxCommands == 2
MaxInputs == 3

SeqsUpTo(S, n) == UNION {[1..k -> S] : k \in 0..n}

\* Menu items: without `when`, with a `when` that is true or false, with one
\* that throws without `user`, with a malformed one.
ItemSamples ==
    {[action |-> "a"],
     [action |-> "b", when |-> "flag"],
     [action |-> "c", when |-> "user.length > 2"],
     [action |-> "d", when |-> "("]}

\* Arguments of filterContributions: no menus, an empty menus object, one
\* menu, and two menus next to a commands facet.
FilterInputs ==
    {EmptyObject,
     [commands |-> << [command |-> "a", title |-> "Hello ${user}"] >>],
     [menus |-> EmptyObject]}
    \cup {[menus |-> [m \in {"editor/title"} |-> items]] :
            items \in SeqsUpTo(ItemSamples, MaxItems)}
    \cup {[commands |-> << [command |-> "a", title |-> "Hello ${user}"] >>,
           menus |-> [m \in {"editor/title", "commandPalette"} |->
                        IF m = "editor/title" THEN items
                        ELSE << [action |-> "b", when |-> "flag"] >>]] :
            items \in SeqsUpTo(ItemSamples, MaxItems)}

\* Commands: every templated field once with a template, and fields that are
\* empty, plain or absent.
CommandSamples ==
    {[command |-> "x"],
     [command |-> "p", title |-> "Plain", category |-> ""],
     [command |-> "t", title |-> "Hello ${user}"],
     [command |-> "g", category |-> "Hello ${user}", description |-> "Repo ${repo.name}"],
     [command |-> "i", title |-> "Plain", iconURL |-> "Hello ${user}"],
     [command |-> "d", description |-> "Hello ${user}"],
     [command |-> "l", title |-> "Plain",
      actionItem |-> [label |-> "Hello ${user}", description |-> "Plain"]],
     [command |-> "ad", actionItem |-> [description |-> "Hello ${user}", group |-> ""]],
     [command |-> "ag", actionItem |-> [group |-> "Hello ${user}"]],
     [command |-> "au",
      actionItem |-> [iconURL |-> "Hello ${user}", iconDescription |-> "Plain"]],
     [command |-> "an",
      actionItem |-> [label |-> "Hello ${user}", iconDescription |-> "Repo ${repo.name}"]],
     [command |-> "ap", title |-> "Hello ${user}", actionItem |-> [label |-> "Plain"]]}

\* Arguments of evaluateContributions: no commands, and command lists next to
\* a menu whose `when` holds a template.
EvaluateInputs ==
    {EmptyObject,
     [menus |-> [m \in {"commandPalette"} |-> << [action |-> "x", when |-> "Hello ${user}"] >>]]}
    \cup {[commands |-> commands] : commands \in SeqsUpTo(CommandSamples, 1)}
    \cup {[commands |-> commands,
           menus |-> [m \in {"commandPalette"} |->
                        << [action |-> "x", when |-> "Hello ${user}"] >>]] :
            commands \in SeqsUpTo(CommandSamples, MaxCommands)}

\* Elements of the lists passed to mergeContributions.
MergeSamples ==
    {EmptyObject,
     [commands |-> <<>>],
     [commands |-> << [command |-> "a"] >>],
     [menus |-> [m \in {"editor/title"} |-> << [action |-> "x"] >>]],
     [commands |-> << [command |-> "b"] >>,
      menus |-> [m \in {"editor/title", "commandPalette"} |->
                   IF m = "editor/title" THEN << [action |-> "y"] >> ELSE <<>>]],
     [menus |-> [m \in {"commandPalette"} |-> << [action |-> "z"] >>]]}

MergeInputs == SeqsUpTo(MergeSamples, MaxInputs)

Called(fn, ctx, input) ==
    [fn |-> fn, stage |-> "called", context |-> ctx, input |-> input,
     output |-> <<>>, templates |-> <<>>]

Calls ==
    {Called("filterContributions", ctx, c) : ctx \in Contexts, c \in FilterInputs}
    \cup {Called("evaluateContributions", ctx, c) : ctx \in Contexts, c \in EvaluateInputs}
    \cup {Called("mergeContributions", EmptyObject, list) : list \in MergeInputs}

\* A caller is about to call one of the exported functions; no registry
\* operation has run.
PureInit ==
    /\ entries = <<>>
    /\ context = <<>>
    /\ handles = {}
    /\ published = <<>>
    /\ lastOp = Op("init", 0, 0, 0)
    /\ entriesSeen = << <<>> >>
    /\ delivered = <<>>
    /\ recomputes = 0
    /\ logged = 0
    /\ call \in Calls

\* filterContributions(context, contributions) returns or throws.
callFilterContributions ==
    /\ call.fn = "filterContributions"
    /\ call.stage = "called"
    /\ call' = IF filterContributionsThrows(call.context, call.input)
               THEN [call EXCEPT !.stage = "threw"]
               ELSE [call EXCEPT !.stage = "returned",
                                 !.output = << filterContributions(call.context, call.input) >>]
    /\ UNCHANGED vars

\* evaluateContributions(context, contributions) returns or throws, having
\* passed call.templates to evaluateTemplate.
callEvaluateContributions ==
    /\ call.fn = "evaluateContributions"
    /\ call.stage = "called"
    /\ call' = IF evaluateContributionsThrows(call.context, call.input)
               THEN [call EXCEPT !.stage = "threw",
                                 !.templates = TemplateCalls(call.context, call.input)]
               ELSE [call EXCEPT !.stage = "returned",
                                 !.output = << evaluateContributions(call.context, call.input) >>,
                                 !.templates = TemplateCalls(call.context, call.input)]
    /\ UNCHANGED vars

\* mergeContributions(contributions) returns.
callMergeContributions ==
    /\ call.fn = "mergeContributions"
    /\ call.stage = "called"
    /\ call' = [call EXCEPT !.stage = "returned",
                            !.output = << mergeContributions(call.input) >>]
    /\ UNCHANGED vars

PureNext ==
    \/ callFilterContributions
    \/ callEvaluateContributions
    \/ callMergeContributions

PureSpec == PureInit /\ [][PureNext]_<<vars, call>>

----------------------------------------------------------------------------
\* Properties

Range(s) == {s[i] : i \in 1..Len(s)}

NoDuplicates(s) == \A i, j \in 1..Len(s) : s[i] = s[j] => i = j

CommandsOf(c) == IF "commands" \in DOMAIN c THEN c.commands ELSE <<>>

HasMenu(c, menu) == "menus" \in DOMAIN c /\ menu \in DOMAIN c.menus

MenuItemsOf(c, menu) == IF HasMenu(c, menu) THEN c.menus[menu] ELSE <<>>

MenuKeys == {"editor/title", "commandPalette"}

\* The filtered and interpolated contributions of an entry whose evaluation
\* does not fail.
Successful(entry, ctx) ==
    evaluateContributions(ctx, filterContributions(ctx, contributionsOf(entry)))

\* The entries of the list whose evaluation does not fail, in list order.
NonFailing(entryList, ctx) ==
    LET ok(e) == ~EvaluationFails(ctx, contributionsOf(e)) IN SelectSeq(entryList, ok)

RECURSIVE ConcatCommands(_, _)
ConcatCommands(entryList, ctx) ==
    IF entryList = <<>> THEN <<>>
    ELSE CommandsOf(Successful(Head(entryList), ctx))
         \o ConcatCommands(Tail(entryList), ctx)

RECURSIVE ConcatMenuItems(_, _, _)
ConcatMenuItems(entryList, ctx, menu) ==
    IF entryList = <<>> THEN <<>>
    ELSE MenuItemsOf(Successful(Head(entryList), ctx), menu)
         \o ConcatMenuItems(Tail(entryList), ctx, menu)

\* Successful and the failure of the evaluation, tabulated.
SuccessfulFor == [entry \in Entries, ctx \in Contexts |-> Successful(entry, ctx)]

EvaluationFailsFor ==
    [entry \in Entries, ctx \in Contexts |-> EvaluationFails(ctx, contributionsOf(entry))]

SomeEntryFails == \E i \in 1..Len(entries) : EntryFails[entries[i], context[1]]

\* C1: once a context snapshot exists, the aggregate's commands are the
\* concatenation, in list order, of the filtered and interpolated commands of
\* the registered entries whose evaluation did not fail; the list order is the
\* registration order, a registered or replacing entry being the last one.
C1_CommandsInRegistrationOrder ==
    /\ lastOp.kind \in {"register", "replace"} =>
          /\ entries # <<>>
          /\ entries[Len(entries)] = lastOp.entry
    /\ context # <<>> =>
          /\ published # <<>>
          /\ CommandsOf(published[1]) = ConcatCommands(NonFailing(entries, context[1]), context[1])

\* A replacement has put its entry last in a list of three, one entry fails
\* and two others contribute commands.
C1_Witness ==
    /\ lastOp.kind = "replace"
    /\ lastOp.removed = 1
    /\ Len(entries) = 3
    /\ context # <<>>
    /\ SomeEntryFails
    /\ Len(CommandsOf(published[1])) = 2
    /\ published[1].commands[1] # published[1].commands[2]

\* C2: a replaceContributions call is one transition of the entry list: the
\* observer of the entry list is notified once, with a list that holds the new
\* entry; the aggregate is recomputed once (not at all before the first
\* context snapshot) and its observer is notified at most once, with the
\* aggregate of the list that holds the new entry.
C2_ReplaceIsOneTransition ==
    lastOp.kind = "replace" =>
        /\ Len(entriesSeen) = 1
        /\ \A i \in 1..Len(entriesSeen) : lastOp.entry \in Range(entriesSeen[i])
        /\ entriesSeen[Len(entriesSeen)] = entries
        /\ recomputes = (IF context = <<>> THEN 0 ELSE 1)
        /\ Len(delivered) <= 1
        /\ \A i \in 1..Len(delivered) : delivered[i] = Recompute(entries, context[1])

\* A replacement that removed the old entry, added a different one and changed
\* the aggregate.
C2_Witness ==
    /\ lastOp.kind = "replace"
    /\ lastOp.removed = 1
    /\ lastOp.entry # lastOp.previous
    /\ Len(entries) >= 2
    /\ recomputes = 1
    /\ Len(delivered) = 1

\* C3: an entry whose filter or interpolation step throws yields {} for the
\* recomputation, and the aggregate is the merge of the outputs of the other
\* entries alone, in their order.
C3_FailingEntryIsolated ==
    context # <<>> =>
        /\ \A i \in 1..Len(entries) :
              EvaluationFails(context[1], contributionsOf(entries[i]))
                 => EvaluateEntries(entries, context[1])[i] = EmptyObject
        /\ published # <<>>
        /\ LET others == NonFailing(entries, context[1])
           IN  published[1] =
                 mergeContributions([i \in 1..Len(others) |-> Successful(others[i], context[1])])

\* The interpolation step of entry 3 throws (its filter step does not)
\* between two entries that contribute.
C3_Witness ==
    /\ context # <<>>
    /\ Len(entries) = 3
    /\ entries[2] = 3
    /\ EntryFails[3, context[1]]
    /\ ~filterContributionsThrows(context[1], contributionsOf(3))
    /\ ~EntryFails[entries[1], context[1]]
    /\ ~EntryFails[entries[3], context[1]]
    /\ logged = 1

\* C4: the subscriber is never notified with an aggregate deep-equal to the
\* one it received last; a trigger whose recomputed aggregate is deep-equal to
\* that of the trigger before it notifies nobody.
C4_NoDuplicateNotification ==
    [][ /\ \A i \in 1..Len(delivered') :
              IF i = 1
              THEN published = <<>> \/ ~isEqual(delivered'[1], published[1])
              ELSE ~isEqual(delivered'[i], delivered'[i - 1])
        /\ ( /\ context # <<>>
             /\ context' # <<>>
             /\ isEqual(Recompute(entries', context'[1]), Recompute(entries, context[1])) )
           => delivered' = <<>>
      ]_vars

\* A context change recomputed the aggregate of a non-empty list and the
\* subscriber was not notified.
C4_Witness ==
    /\ lastOp.kind = "context"
    /\ entries # <<>>
    /\ recomputes = 1
    /\ delivered = <<>>
    /\ published # <<>>
    /\ published[1] # EmptyObject

\* C5: every call and every context snapshot recomputes once a snapshot
\* exists, and the aggregate last published is deep-equal to the merge of the
\* evaluations of the current entries under the current context.
C5_PublishedNeverStale ==
    context # <<>> =>
        /\ lastOp.kind # "init"
        /\ recomputes >= 1
        /\ published # <<>>
        /\ isEqual(published[1], Recompute(entries, context[1]))

\* A context snapshot alone turned the title of entry 1 into "Hello Zed".
C5_Witness ==
    /\ lastOp.kind = "context"
    /\ entries = <<1>>
    /\ context = <<CtxZed>>
    /\ Len(delivered) = 1
    /\ published[1].commands[1].title = "Hello Zed"

\* C6: under every menu key the aggregate's items are the concatenation, in
\* list order, of the filtered items of the non-failing entries under that
\* key, and the aggregate has the key exactly when one of them declares it.
C6_MenusConcatenatedPerKey ==
    context # <<>> =>
        /\ published # <<>>
        /\ \A menu \in MenuKeys :
              LET others == NonFailing(entries, context[1])
              IN  /\ MenuItemsOf(published[1], menu) = ConcatMenuItems(others, context[1], menu)
                  /\ HasMenu(published[1], menu)
                       <=> \E i \in 1..Len(others) : HasMenu(contributionsOf(others[i]), menu)

\* Entry 2's only item under editor/title is filtered out, entry 1 still
\* contributes its item under the key.
C6_Witness ==
    /\ context = <<CtxZed>>
    /\ entries = <<2, 1>>
    /\ MenuItemsOf(Successful(2, CtxZed), "editor/title") = <<>>
    /\ HasMenu(published[1], "editor/title")
    /\ published[1].menus["editor/title"] = << [action |-> "a"] >>

\* The elements of the list other than `entry`, in list order.
Others(entryList, entry) == LET other(e) == e # entry IN SelectSeq(entryList, other)

\* C7: unsubscribing a handle removes its entry and nothing else: the other
\* entries stay, in the same relative order, and every handle stays usable.
C7_UnsubscribeRemovesOnlyItsEntry ==
    [][ lastOp'.kind = "unsubscribe" =>
          /\ lastOp'.entry \notin Range(entries')
          /\ Others(entries', lastOp'.entry) = Others(entries, lastOp'.entry)
          /\ Len(entries') = Len(entries) - lastOp'.removed
          /\ handles' = handles
      ]_vars

\* An entry was removed from a list of three; its deep-equal twin (entries 1
\* and 4) is still registered.
C7_Witness ==
    /\ lastOp.kind = "unsubscribe"
    /\ lastOp.removed = 1
    /\ Len(entries) = 2
    /\ (1 \in Range(entries)) # (4 \in Range(entries))
    /\ lastOp.entry \in {1, 4}

\* C8: unsubscribing a handle whose entry is not in the list leaves the list
\* as it is and notifies no aggregate.
C8_StaleUnsubscribeIsNoOp ==
    [][ (lastOp'.kind = "unsubscribe" /\ lastOp'.entry \notin Range(entries)) =>
          /\ entries' = entries
          /\ delivered' = <<>>
          /\ published' = published
          /\ handles' = handles
      ]_vars

\* A second unsubscribe on a non-empty list, with a context: the aggregate
\* was recomputed and nobody was notified.
C8_Witness ==
    /\ lastOp.kind = "unsubscribe"
    /\ lastOp.removed = 0
    /\ lastOp.entry \in handles
    /\ Len(entries) >= 2
    /\ context # <<>>
    /\ recomputes = 1
    /\ delivered = <<>>

\* C9 as stated: replaceContributions with a handle whose entry is not in the
\* list leaves the list unchanged or reports an error.
C9_AbsentReplaceIsNoOpOrError ==
    [][ (lastOp'.kind = "replace" /\ lastOp'.previous \notin Range(entries)) =>
          (entries' = entries \/ logged' > 0)
      ]_vars

\* C9 amended: replaceContributions with a handle whose entry is not in the
\* list acts as a registration of `next`: the entries of the list stay in
\* their order and `next` is appended; nothing is reported but the evaluation
\* failures of the recomputation.
C9_AbsentReplaceRegistersNext ==
    [][ (lastOp'.kind = "replace" /\ lastOp'.previous \notin Range(entries)) =>
          /\ entries' = Append(entries, lastOp'.entry)
          /\ handles' = handles \cup {lastOp'.entry}
          /\ logged' = IF context' = <<>> THEN 0 ELSE ErrorsLogged(entries', context'[1])
      ]_vars

\* A replacement through a handle whose entry was not in the list appended a
\* new entry behind two others.
C9_Witness ==
    /\ lastOp.kind = "replace"
    /\ lastOp.removed = 0
    /\ lastOp.previous # lastOp.entry
    /\ Len(entries) = 3
    /\ entries[3] = lastOp.entry
    /\ lastOp.entry \notin {entries[1], entries[2]}

\* C10: in every reachable state the entry list holds no entry object twice,
\* whatever entry objects the calls pass.
C10_NeverTwice == NoDuplicates(entries)

\* C11: a failing evaluation does not stop the publisher: in every state
\* with a context snapshot the aggregate of the entries that evaluate
\* successfully is the published one, those that a replacement or a context
\* change has fixed included; and the step after a state in which an entry's
\* evaluation fails recomputes as usual and notifies the subscriber exactly
\* when the aggregate has changed.
C11_FailureNeverStopsPublisher ==
    /\ [](context # <<>> =>
            LET succeeds(e) == ~EvaluationFailsFor[e, context[1]]
                succeeding == SelectSeq(entries, succeeds)
            IN  published =
                  << mergeContributions([i \in 1..Len(succeeding) |->
                                           SuccessfulFor[succeeding[i], context[1]]]) >>)
    /\ [][ (context # <<>> /\ SomeEntryFails) =>
              /\ recomputes' = 1
              /\ IF published'[1] # published[1]
                 THEN delivered' = << published'[1] >>
                 ELSE delivered' = <<>>
         ]_vars

\* Entry 3, which fails under the current context, has been replaced by
\* entry 1, which evaluates, and the subscriber has received the aggregate
\* with its command.
C11_Witness ==
    /\ lastOp.kind = "replace"
    /\ lastOp.previous = 3
    /\ lastOp.removed = 1
    /\ lastOp.entry = 1
    /\ context # <<>>
    /\ EntryFails[3, context[1]]
    /\ ~SomeEntryFails
    /\ Len(delivered) = 1
    /\ \E i \in 1..Len(CommandsOf(published[1])) : published[1].commands[i].command = "a"

\* C12: the observer of `entries` receives the entry list itself, with the
\* entries whose evaluation fails; a context snapshot neither changes the list
\* nor notifies that observer.
C12_RawEntriesAreTheStore ==
    [][ /\ lastOp'.kind \in {"register", "replace", "unsubscribe"} =>
              entriesSeen' = << entries' >>
        /\ lastOp'.kind = "context" =>
              /\ entries' = entries
              /\ entriesSeen' = <<>>
      ]_vars

\* Entry 3 has been registered under a context in which its evaluation fails:
\* the aggregate did not change and the entry is in the list the observer of
\* `entries` received.
C12_Witness ==
    /\ lastOp.kind = "register"
    /\ lastOp.entry = 3
    /\ context # <<>>
    /\ EntryFails[3, context[1]]
    /\ Len(entries) >= 2
    /\ delivered = <<>>
    /\ entriesSeen = << entries >>
    /\ 3 \in Range(entriesSeen[1])

\* The items of `items` without `when` or whose `when` is truthy under ctx,
\* in their order.
RECURSIVE KeptItems(_, _)
KeptItems(items, ctx) ==
    IF items = <<>> THEN <<>>
    ELSE (IF \/ "when" \notin DOMAIN Head(items)
             \/ evaluate(Head(items).when, createChildContext(ctx))
          THEN << Head(items) >>
          ELSE <<>>)
         \o KeptItems(Tail(items), ctx)

\* C13: a filterContributions call that has returned has kept every key of
\* its argument, the commands facet as it was and every menu key, and each
\* menu's sequence is the subsequence, in the original order and with the
\* items as they were, of the items without `when` or with a truthy `when`.
C13_FilterKeepsEnabledItems ==
    (call.fn = "filterContributions" /\ call.stage = "returned") =>
        LET contributions == call.input
            filtered == call.output[1]
        IN  /\ DOMAIN filtered = DOMAIN contributions
            /\ \A key \in DOMAIN contributions \ {"menus"} :
                  filtered[key] = contributions[key]
            /\ "menus" \in DOMAIN contributions =>
                  /\ DOMAIN filtered.menus = DOMAIN contributions.menus
                  /\ \A menu \in DOMAIN contributions.menus :
                        filtered.menus[menu] =
                          KeptItems(contributions.menus[menu], call.context)

\* A call has returned with commands untouched, one menu filtered down to the
\* empty sequence and the other to its first and third item of three.
C13_Witness ==
    /\ call.fn = "filterContributions"
    /\ call.stage = "returned"
    /\ DOMAIN call.input = {"commands", "menus"}
    /\ DOMAIN call.input.menus = {"editor/title", "commandPalette"}
    /\ call.input.menus["editor/title"] =
          << [action |-> "a"], [action |-> "b", when |-> "flag"],
             [action |-> "c", when |-> "user.length > 2"] >>
    /\ call.output[1].commands = call.input.commands
    /\ call.output[1].menus["editor/title"] =
          << [action |-> "a"], [action |-> "c", when |-> "user.length > 2"] >>
    /\ call.output[1].menus["commandPalette"] = <<>>

\* The value evaluateContributions leaves in a field that can hold a template.
Interpolated(value, ctx) ==
    IF needsEvaluation(value) THEN evaluateTemplate(value, createChildContext(ctx))
    ELSE value

\* `evaluated` is `command` with its title, category, description and iconURL
\* and its actionItem's label, description, group, iconURL and iconDescription
\* interpolated where they need it, every other field being as it was.
CommandInterpolated(command, evaluated, ctx) ==
    /\ DOMAIN evaluated = DOMAIN command
    /\ \A field \in DOMAIN command \ {"actionItem"} :
          evaluated[field] =
            IF field \in {"title", "category", "description", "iconURL"}
            THEN Interpolated(command[field], ctx)
            ELSE command[field]
    /\ "actionItem" \in DOMAIN command =>
          /\ DOMAIN evaluated.actionItem = DOMAIN command.actionItem
          /\ \A field \in DOMAIN command.actionItem :
                evaluated.actionItem[field] =
                  IF field \in {"label", "description", "group", "iconURL",
                                "iconDescription"}
                  THEN Interpolated(command.actionItem[field], ctx)
                  ELSE command.actionItem[field]

\* C14: an evaluateContributions call that has returned has kept every key
\* of its argument and the menus as they were, `when` strings included, and
\* its commands are the argument's commands in their order, each with its
\* nine templated fields interpolated where needsEvaluation holds and every
\* other field untouched, so that a command without such a field is the
\* original command.
C14_EvaluateInterpolatesTemplatedFields ==
    (call.fn = "evaluateContributions" /\ call.stage = "returned") =>
        LET contributions == call.input
            evaluated == call.output[1]
        IN  /\ DOMAIN evaluated = DOMAIN contributions
            /\ \A key \in DOMAIN contributions \ {"commands"} :
                  evaluated[key] = contributions[key]
            /\ "commands" \in DOMAIN contributions =>
                  /\ Len(evaluated.commands) = Len(contributions.commands)
                  /\ \A i \in 1..Len(contributions.commands) :
                        /\ CommandInterpolated(contributions.commands[i],
                                               evaluated.commands[i], call.context)
                        /\ TemplatesOfCommands(<< contributions.commands[i] >>) = <<>>
                              => evaluated.commands[i] = contributions.commands[i]

\* A call has returned two commands: the first with its actionItem's label
\* interpolated and that actionItem's plain description kept, the second,
\* which has no template, as it was; the menu's `when` still holds its
\* template.
C14_Witness ==
    /\ call.fn = "evaluateContributions"
    /\ call.stage = "returned"
    /\ call.context = CtxBo
    /\ DOMAIN call.input = {"commands", "menus"}
    /\ call.input.commands =
          << [command |-> "l", title |-> "Plain",
              actionItem |-> [label |-> "Hello ${user}", description |-> "Plain"]],
             [command |-> "p", title |-> "Plain", category |-> ""] >>
    /\ call.output[1].commands =
          << [command |-> "l", title |-> "Plain",
              actionItem |-> [label |-> "Hello Bo", description |-> "Plain"]],
             [command |-> "p", title |-> "Plain", category |-> ""] >>
    /\ call.output[1].menus["commandPalette"][1].when = "Hello ${user}"

\* The number of fields of `object`, among `fields`, for which needsEvaluation
\* is true.
NeedingEvaluation(object, fields) ==
    Cardinality({field \in fields \cap DOMAIN object : needsEvaluation(object[field])})

RECURSIVE CountNeedingEvaluation(_)
CountNeedingEvaluation(commands) ==
    IF commands = <<>> THEN 0
    ELSE NeedingEvaluation(Head(commands), {"title", "category", "description", "iconURL"})
         + (IF "actionItem" \in DOMAIN Head(commands)
            THEN NeedingEvaluation(Head(commands).actionItem,
                                   {"label", "description", "group", "iconURL",
                                    "iconDescription"})
            ELSE 0)
         + CountNeedingEvaluation(Tail(commands))

\* C15: an evaluateContributions call, whether it has returned or thrown,
\* has passed to evaluateTemplate only strings for which needsEvaluation is
\* true, and at most as many as its commands have fields for which
\* needsEvaluation is true.
C15_OnlyTemplatesReachTheEvaluator ==
    (call.fn = "evaluateContributions" /\ call.stage \in {"returned", "threw"}) =>
        /\ \A i \in 1..Len(call.templates) : needsEvaluation(call.templates[i])
        /\ Len(call.templates) <=
              (IF "commands" \in DOMAIN call.input
               THEN CountNeedingEvaluation(call.input.commands)
               ELSE 0)

\* A call has returned for two commands with three plain or empty fields and
\* one template: evaluateTemplate was called once, with the template.
C15_Witness ==
    /\ call.fn = "evaluateContributions"
    /\ call.stage = "returned"
    /\ DOMAIN call.input = {"commands", "menus"}
    /\ call.input.commands =
          << [command |-> "p", title |-> "Plain", category |-> ""],
             [command |-> "i", title |-> "Plain", iconURL |-> "Hello ${user}"] >>
    /\ call.templates = << "Hello ${user}" >>

RECURSIVE AllCommands(_)
AllCommands(list) ==
    IF list = <<>> THEN <<>> ELSE CommandsOf(Head(list)) \o AllCommands(Tail(list))

RECURSIVE AllMenuItems(_, _)
AllMenuItems(list, menu) ==
    IF list = <<>> THEN <<>>
    ELSE MenuItemsOf(Head(list), menu) \o AllMenuItems(Tail(list), menu)

\* C16: a mergeContributions call has returned the empty Contributions for no
\* input and its input for one input; for several inputs the result has a
\* commands facet iff some input has one, holding the inputs' commands
\* concatenated in input order, and a menus facet iff some input has one,
\* holding every menu key of an input with the inputs' sequences for that key
\* concatenated in input order.
C16_MergeFollowsTheThreeRules ==
    (call.fn = "mergeContributions" /\ call.stage = "returned") =>
        LET list == call.input
            merged == call.output[1]
            with(facet) == {i \in 1..Len(list) : facet \in DOMAIN list[i]}
        IN  /\ Len(list) = 0 => merged = EmptyObject
            /\ Len(list) = 1 => merged = list[1]
            /\ Len(list) > 1 =>
                  /\ DOMAIN merged = {facet \in {"commands", "menus"} : with(facet) # {}}
                  /\ CommandsOf(merged) = AllCommands(list)
                  /\ "menus" \in DOMAIN merged =>
                        /\ DOMAIN merged.menus =
                              UNION {DOMAIN list[i].menus : i \in with("menus")}
                        /\ \A menu \in DOMAIN merged.menus :
                              merged.menus[menu] = AllMenuItems(list, menu)

\* Three inputs have been merged: two with commands, two with the menu
\* editor/title, one of them bringing the key commandPalette.
C16_Witness ==
    /\ call.fn = "mergeContributions"
    /\ call.stage = "returned"
    /\ Len(call.input) = 3
    /\ call.output[1] =
          [commands |-> << [command |-> "a"], [command |-> "b"] >>,
           menus |-> [m \in {"editor/title", "commandPalette"} |->
                        IF m = "editor/title"
                        THEN << [action |-> "x"], [action |-> "y"] >>
                        ELSE <<>>]]

\* The most groups a list is split into.
MaxGroups == 3

\* A split of a list of n elements into consecutive groups, as the positions
\* after which a new group starts; equal positions make an empty group.
Splits(n) ==
    {cuts \in SeqsUpTo(0..n, MaxGroups - 1) :
        \A j \in 1..(Len(cuts) - 1) : cuts[j] <= cuts[j + 1]}

\* Each group merged, then the group results merged.
MergeByGroups(list, cuts) ==
    LET groups == Len(cuts) + 1
        end(j) == IF j = 0 THEN 0 ELSE IF j = groups THEN Len(list) ELSE cuts[j]
    IN  mergeContributions([j \in 1..groups |->
                              mergeContributions(SubSeq(list, end(j - 1) + 1, end(j)))])

\* C17: what a mergeContributions call has returned equals, for every split
\* of its input into consecutive groups (empty and one-element groups
\* included), the merge of the merged groups; and the merge is not
\* commutative: two inputs exist whose merge differs when they are swapped.
C17_MergeAssociativeNotCommutative ==
    /\ (call.fn = "mergeContributions" /\ call.stage = "returned") =>
          \A cuts \in Splits(Len(call.input)) :
              isEqual(MergeByGroups(call.input, cuts), call.output[1])
    /\ \E a \in MergeSamples, b \in MergeSamples :
          ~isEqual(mergeContributions(<< a, b >>), mergeContributions(<< b, a >>))

\* Three inputs have been merged whose commands and menu items come out in
\* another order when the inputs are reversed, and merging the last two
\* first gives the same result.
C17_Witness ==
    /\ call.fn = "mergeContributions"
    /\ call.stage = "returned"
    /\ Len(call.input) = 3
    /\ CommandsOf(call.output[1]) = << [command |-> "b"], [command |-> "a"] >>
    /\ MenuItemsOf(call.output[1], "editor/title") = << [action |-> "y"], [action |-> "x"] >>
    /\ call.output[1] #
          mergeContributions(<< call.input[3], call.input[2], call.input[1] >>)
    /\ call.output[1] =
          mergeContributions(<< call.input[1],
                                mergeContributions(<< call.input[2], call.input[3] >>) >>)

\* C18 as stated: a recomputation in which an evaluation throws reports
\* exactly one failure, and one without a failure reports none (stated for
\* entry lists that hold no entry object twice).
C18_OneReportPerFailingRecomputation ==
    (NoDuplicates(entries) /\ recomputes = 1) =>
        logged = (IF SomeEntryFails THEN 1 ELSE 0)

\* C18, amended: a recomputation reports one failure for each element of the
\* entry list whose evaluation throws, and none when no evaluation throws;
\* without a recomputation nothing is reported.
C18_OneReportPerFailingEntry ==
    /\ recomputes = 0 => logged = 0
    /\ recomputes = 1 =>
          logged = Len(entries) - Len(NonFailing(entries, context[1]))

\* One recomputation of a list of three distinct entries, two of which fail,
\* has reported two failures.
C18_Witness ==
    /\ recomputes = 1
    /\ Len(entries) = 3
    /\ NoDuplicates(entries)
    /\ Len(NonFailing(entries, context[1])) = 1
    /\ logged = 2

\* C19: as long as the context source has supplied no snapshot, nothing is
\* recomputed or published, whatever is registered, replaced or
\* deregistered; the step that supplies the first snapshot leaves the entry
\* list as it is and delivers exactly one aggregate, the one computed from
\* that list under that snapshot.
C19_NothingBeforeFirstContext ==
    /\ context = <<>> => (published = <<>> /\ delivered = <<>>)
    /\ [][ /\ context' = <<>> =>
                /\ published' = <<>>
                /\ delivered' = <<>>
                /\ recomputes' = 0
           /\ (context = <<>> /\ context' # <<>>) =>
                /\ entries' = entries
                /\ LET succeeds(e) == ~EvaluationFailsFor[e, context'[1]]
                       succeeding == SelectSeq(entries, succeeds)
                       aggregate ==
                         mergeContributions([i \in 1..Len(succeeding) |->
                                               SuccessfulFor[succeeding[i], context'[1]]])
                   IN  /\ delivered' = << aggregate >>
                       /\ published' = << aggregate >>
         ]_vars

\* Entries were registered and deregistered before any snapshot; the first
\* snapshot has published the empty Contributions of the empty list (a later
\* snapshot over an empty list is suppressed as unchanged).
C19_Witness ==
    /\ lastOp.kind = "context"
    /\ Cardinality(handles) >= 2
    /\ entries = <<>>
    /\ delivered = << EmptyObject >>
    /\ published = << EmptyObject >>

\* C20 as stated, in its last part: the handle a replace call returns is the
\* only one that removes the replacement entry, so that when a replace
\* installs an entry that is not in the list, no handle returned earlier
\* refers to that entry.
C20_OnlyTheReturnedHandleRemoves ==
    [][ ( /\ lastOp'.kind = "replace"
          /\ lastOp'.entry # lastOp'.previous
          /\ lastOp'.removed = 1
          /\ lastOp'.entry \notin Range(entries) )
        => lastOp'.entry \notin handles
      ]_vars

\* C20, amended: right after a replace whose new entry is another object than
\* the old handle's, unsubscribing the old handle removes nothing, leaves the
\* list as it is and the replacement in it; and an entry leaves the list only
\* by unsubscribe on a handle that refers to that entry object, or by a
\* replace on such a handle.
C20_OldHandleIsStale ==
    [][ /\ ( /\ lastOp.kind = "replace"
             /\ lastOp.entry # lastOp.previous
             /\ lastOp'.kind = "unsubscribe"
             /\ lastOp'.entry = lastOp.previous )
           => /\ entries' = entries
              /\ lastOp'.removed = 0
              /\ lastOp.entry \in Range(entries')
        /\ \A e \in Range(entries) \ Range(entries') :
              \/ lastOp'.kind = "unsubscribe" /\ lastOp'.entry = e /\ e \in handles
              \/ lastOp'.kind = "replace" /\ lastOp'.previous = e
      ]_vars

\* A replace has just put entry 2 in the place of entry 1, next to entry 3:
\* the old handle is still held and its entry is no longer in the list.
C20_Witness ==
    /\ lastOp.kind = "replace"
    /\ lastOp.previous = 1
    /\ lastOp.entry = 2
    /\ lastOp.removed = 1
    /\ 1 \in handles
    /\ 1 \notin Range(entries)
    /\ entries = << 3, 2 >>

====
